---- MODULE Spec2Model ----
(***************************************************************************)
(* otp-profile-score (components/conveyal/otp-profile-score/master):       *)
(* expansion of OTP profile options into access x egress combinations,     *)
(* tally of distances / time / cost / emissions / calories, weighted       *)
(* score, ascending ranking, and the construction of ProfileScore          *)
(* instances from the module-level default tables.                         *)
(*                                                                         *)
(* JavaScript numbers are modelled as decimal floating point values        *)
(* [m |-> significand, e |-> exponent] (value m * 10^e) with a four digit  *)
(* significand; every arithmetic operation rounds its result (toward       *)
(* zero), as every IEEE operation of the program rounds its own.           *)
(* JavaScript objects are functions from property names to values; an      *)
(* absent property is a name outside the DOMAIN.  Objects live in a heap   *)
(* (a sequence; a reference is an index, 0 is null).                       *)
(***************************************************************************)
EXTENDS Integers, Sequences, FiniteSets, TLC

(***************************************************************************)
(* Numbers                                                                 *)
(***************************************************************************)
Abs(n) == IF n < 0 THEN -n ELSE n

Sgn(n) == IF n < 0 THEN -1 ELSE IF n > 0 THEN 1 ELSE 0

RECURSIVE Pow10(_)
Pow10(n) == IF n = 0 THEN 1 ELSE 10 * Pow10(n - 1)

\* Round m * 10^e to the significand width and normalise it.
RECURSIVE Norm(_, _)
Norm(m, e) ==
  IF m = 0 THEN [m |-> 0, e |-> 0]
  ELSE IF Abs(m) >= 10000 THEN Norm(Sgn(m) * (Abs(m) \div 10), e + 1)
  ELSE IF Abs(m) < 1000 THEN Norm(m * 10, e - 1)
  ELSE [m |-> m, e |-> e]

\* The number literal n (an integer) and the decimal literal m * 10^e.
Num(n) == Norm(n, 0)

Dec(m, e) == Norm(m, e)

IsNumber(x) == DOMAIN x = {"m", "e"}

Neg(a) == [m |-> -a.m, e |-> a.e]

\* a + b: the operand of smaller exponent is aligned; one that lies wholly
\* below the last digit of the other is absorbed.
Add(a, b) ==
  IF a.m = 0 THEN b
  ELSE IF b.m = 0 THEN a
  ELSE LET hi == IF a.e >= b.e THEN a ELSE b
           lo == IF a.e >= b.e THEN b ELSE a
           d  == hi.e - lo.e
       IN IF d > 5 THEN hi ELSE Norm(hi.m * Pow10(d) + lo.m, lo.e)

Sub(a, b) == Add(a, Neg(b))

Mul(a, b) == Norm(a.m * b.m, a.e + b.e)

\* a / b for b # 0 (the model never divides by zero: every rate is positive).
Div(a, b) ==
  Norm(Sgn(a.m) * Sgn(b.m) * ((Abs(a.m) * 10000) \div Abs(b.m)), a.e - b.e - 4)

\* a < b and a <= b, by exponent and significand.
Less(a, b) ==
  IF a.m = b.m /\ a.e = b.e THEN FALSE
  ELSE IF Sgn(a.m) # Sgn(b.m) THEN Sgn(a.m) < Sgn(b.m)
  ELSE IF a.e = b.e THEN a.m < b.m
  ELSE IF a.m > 0 THEN a.e < b.e
  ELSE a.e > b.e

Leq(a, b) == a = b \/ Less(a, b)

(***************************************************************************)
(* Module-level constants (index.js 8-33)                                  *)
(***************************************************************************)
CO2_PER_GALLON == Dec(8887, -3)

CYCLING_MET == Num(8)

METERS_TO_MILES == Dec(6213, -7)

SECONDS_TO_HOURS == Div(Div(Num(1), Num(60)), Num(60))

WALKING_MET == Dec(38, -1)

CO2_PER_TRANSIT_TRIP == Div(Num(239000000), Num(200000000))

\* The object literals DEFAULT_TIME_FACTORS and DEFAULT_RATES are evaluated to.
TimeFactorsLiteral ==
  [bikeParking |-> Num(1), calories |-> Dec(-1, -2), carParking |-> Num(5),
   co2 |-> Dec(5, -1), cost |-> Num(5), transfer |-> Num(5)]

RatesLiteral ==
  [bikeSpeed |-> Dec(41, -1), carParkingCost |-> Num(10),
   co2PerTransitTrip |-> CO2_PER_TRANSIT_TRIP, mileageRate |-> Dec(56, -2),
   mpg |-> Dec(214, -1), walkSpeed |-> Dec(14, -1), weight |-> Num(75)]

\* The module variables DEFAULT_TIME_FACTORS and DEFAULT_RATES: references
\* (indices into conf) to the two objects the literals created.
DEFAULT_TIME_FACTORS == 1

DEFAULT_RATES == 2

\* An object without properties: {}.
EmptyObject == [k \in {} |-> 0]

(***************************************************************************)
(* Bounds and the caller's inputs                                          *)
(***************************************************************************)
\* ProfileScore instances constructed in one behaviour.
MaxInstances == 2

\* Options in the array handed to processOptions.
MaxOptions == 2

\* Street edges of the leg drawn for the street-edge accumulator.
MaxEdges == 3

\* Runs of processOption on one record.
MaxRuns == 3

\* Factor functions a caller may pass in opts.factors (applyFactor calls them).
CallFn(f, v) ==
  CASE f.fn = "zero"  -> Num(0)
    [] f.fn = "twice" -> Mul(Num(2), v)

\* The opts a caller passes to the constructor; EmptyObject stands for an
\* absent opts as well (opts = opts || {}).
OptsChoices ==
  { EmptyObject,
    [factors |-> [cost |-> Num(0)], rates |-> [mpg |-> Num(30), weight |-> Num(60)]],
    [factors |-> [calories |-> [fn |-> "zero"], transfer |-> [fn |-> "twice"]],
     rates |-> [co2PerTransitTrip |-> Num(2)]] }

VARIABLES
  conf,       \* the objects behind DEFAULT_TIME_FACTORS and DEFAULT_RATES
  instances,  \* the ProfileScore instances: [factors, rates] references into conf
  opts,       \* opts[i]: the argument instances[i] was constructed with
  heap,       \* the caller's objects and the records processOptions creates
  input,      \* the options array of the caller: references into heap
  result,     \* <<>> until processOptions is called, then <<[by, value]>>:
              \* the calling instance and the array returned, of the last call
  rec,        \* the record handed to processOption directly (0: none)
  runs,       \* number of processOption runs on rec
  first       \* rec as it was after its first run

vars == <<conf, instances, opts, heap, input, result, rec, runs, first>>

(***************************************************************************)
(* Construction (index.js 48-53, 321-324)                                  *)
(***************************************************************************)
\* merge(a, b): copies every key of b into the object a refers to and
\* returns the reference a itself.
merge(c, a, b) ==
  [conf |-> [c EXCEPT ![a] = [k \in DOMAIN c[a] \cup DOMAIN b |->
                                IF k \in DOMAIN b THEN b[k] ELSE c[a][k]]],
   ref  |-> a]

\* opts.factors || {} and opts.rates || {}
OrEmpty(o, key) == IF key \in DOMAIN o THEN o[key] ELSE EmptyObject

\* new ProfileScore(o)
ProfileScore(o) ==
  /\ Len(instances) < MaxInstances
  /\ \E f \in {merge(conf, DEFAULT_TIME_FACTORS, OrEmpty(o, "factors"))} :
       \E r \in {merge(f.conf, DEFAULT_RATES, OrEmpty(o, "rates"))} :
         /\ conf' = r.conf
         /\ instances' = Append(instances, [factors |-> f.ref, rates |-> r.ref])
  /\ opts' = Append(opts, o)
  /\ UNCHANGED <<heap, input, result, rec, runs, first>>

(***************************************************************************)
(* Objects of the caller                                                   *)
(*   option : access, egress, transit, fares (each optional) refer to an   *)
(*            array; tally and score add the tallied properties            *)
(*   array  : [elems |-> sequence of references]                           *)
(*   access / egress leg : mode, time, streetEdges (optional)              *)
(*   transit segment     : mode, walkTime, walkDistance, waitStats,        *)
(*                         rideStats, segmentPatterns (optional)           *)
(*   fare                : peak (optional); a fare may be null             *)
(***************************************************************************)
Alloc(h, obj) == [h |-> Append(h, obj), r |-> Len(h) + 1]

\* Statement sequencing: v is evaluated, then Op on its value.
Then(v, Op(_)) == CHOOSE y \in {Op(x) : x \in {v}} : TRUE

\* The properties of an option that hold references.
RefKeys == <<"access", "egress", "transit", "fares">>

\* A new array of the elements s.r, a new object s.obj, in the heap s.h.
AllocArray(s) == Alloc(s.h, [elems |-> s.r])

AllocObject(s) == Alloc(s.h, s.obj)

RECURSIVE clone(_, _)
RECURSIVE CloneElems(_, _, _)
RECURSIVE CloneFields(_, _, _, _)

\* clone(x) of the clone / component-clone package: a deep copy, no object
\* of which is an object of the original.
clone(h, r) ==
  IF r = 0 THEN [h |-> h, r |-> 0]
  ELSE IF "elems" \in DOMAIN h[r]
  THEN AllocArray(CloneElems(h, h[r].elems, <<>>))
  ELSE AllocObject(CloneFields(h, h[r], RefKeys, h[r]))

\* c is the copy of the first of elems.
CloneNextElem(c, elems, done) == CloneElems(c.h, Tail(elems), Append(done, c.r))

CloneElems(h, elems, done) ==
  IF elems = <<>> THEN [h |-> h, r |-> done]
  ELSE Then(clone(h, Head(elems)), LAMBDA c : CloneNextElem(c, elems, done))

\* c is the copy of what the first of keys refers to.
CloneNextField(c, src, keys, obj) ==
  CloneFields(c.h, src, Tail(keys), (Head(keys) :> c.r) @@ obj)

CloneFields(h, src, keys, obj) ==
  IF keys = <<>> THEN [h |-> h, obj |-> obj]
  ELSE IF Head(keys) \in DOMAIN src
  THEN Then(clone(h, src[Head(keys)]), LAMBDA c : CloneNextField(c, src, keys, obj))
  ELSE CloneFields(h, src, Tail(keys), obj)

\* The objects reachable from reference r.
RECURSIVE Reach(_, _)
Reach(h, r) ==
  IF r = 0 THEN {}
  ELSE IF "elems" \in DOMAIN h[r]
  THEN {r} \cup UNION {Reach(h, h[r].elems[i]) : i \in 1..Len(h[r].elems)}
  ELSE {r} \cup UNION {Reach(h, h[r][k]) :
                         k \in {RefKeys[j] : j \in 1..Len(RefKeys)} \cap DOMAIN h[r]}

(***************************************************************************)
(* Helpers (index.js 274-319)                                              *)
(***************************************************************************)
\* String.prototype.toLowerCase on the mode names that occur.
toLowerCase(s) ==
  CASE s = "WALK" -> "walk"
    [] s = "CAR" -> "car"
    [] s = "BICYCLE" -> "bicycle"
    [] s = "BICYCLE_RENT" -> "bicycle_rent"
    [] s = "BUS" -> "bus"
    [] s = "SUBWAY" -> "subway"
    [] OTHER -> s

\* modes.indexOf(mode) !== -1
Includes(modes, mode) == \E i \in 1..Len(modes) : modes[i] = mode

\* streetEdges.reduce(..., 0): st is [mode |-> currentMode, distance |-> distance].
RECURSIVE EdgeReduce(_, _, _)

\* Mutant: an edge that declares no mode counts as walk, not as the mode
\* declared before it.
RECURSIVE EdgeReduceNoCarry(_, _, _)
EdgeReduceNoCarry(streetEdges, mode, st) ==
  IF streetEdges = <<>> THEN st.distance
  ELSE LET step == Head(streetEdges)
           currentMode == IF "mode" \in DOMAIN step THEN toLowerCase(step.mode)
                          ELSE "walk"
           distance == IF currentMode = mode THEN Add(st.distance, step.distance)
                       ELSE st.distance
       IN EdgeReduceNoCarry(Tail(streetEdges), mode,
                            [mode |-> currentMode, distance |-> distance])

EdgeReduce(streetEdges, mode, st) ==
  IF streetEdges = <<>> THEN st.distance
  ELSE LET step == Head(streetEdges)
           currentMode == IF "mode" \in DOMAIN step THEN toLowerCase(step.mode)
                          ELSE st.mode
           distance == IF currentMode = mode THEN Add(st.distance, step.distance)
                       ELSE st.distance
       IN EdgeReduce(Tail(streetEdges), mode,
                     [mode |-> currentMode, distance |-> distance])

streetEdgeDistanceForMode(streetEdges, mode) ==
  EdgeReduce(streetEdges, mode, [mode |-> "walk", distance |-> Num(0)])

\* The switch of addStreetEdges (278-293); o1 is o after o.modes.push(mode).
AddDistances(o1, mode, streetEdges) ==
          CASE mode = "car" ->
                 [driveDistance |-> Add(o1.driveDistance,
                     streetEdgeDistanceForMode(streetEdges, "car"))] @@ o1
            [] mode = "bicycle" ->
                 [bikeDistance |-> Add(o1.bikeDistance,
                     streetEdgeDistanceForMode(streetEdges, "bicycle"))] @@ o1
            [] mode = "bicycle_rent" ->
                 [modes |-> Append(o1.modes, "walk"),
                  bikeDistance |-> Add(o1.bikeDistance,
                     streetEdgeDistanceForMode(streetEdges, "bicycle")),
                  walkDistance |-> Add(o1.walkDistance,
                     streetEdgeDistanceForMode(streetEdges, "walk"))] @@ o1
            [] mode = "walk" ->
                 [walkDistance |-> Add(o1.walkDistance,
                     streetEdgeDistanceForMode(streetEdges, "walk"))] @@ o1
            [] OTHER -> o1

addStreetEdges(o, mode, leg) ==
  IF "streetEdges" \notin DOMAIN leg THEN o
  ELSE AddDistances([modes |-> Append(o.modes, mode)] @@ o, mode, leg.streetEdges)

caloriesBurned(met, kg, hours) == Mul(Mul(met, kg), hours)

applyFactor(v, f) == IF "fn" \in DOMAIN f THEN CallFn(f, v) ELSE Mul(f, v)

(***************************************************************************)
(* tally (index.js 170-272)                                                *)
(***************************************************************************)
\* The number Infinity.
Infinity == [inf |-> TRUE]

\* o[key] && o[key].length > 0, for an array property
NonEmpty(h, o, key) ==
  key \in DOMAIN o /\ o[key] # 0 /\ Len(h[o[key]].elems) > 0

\* Mutant: time is not reset.
TallyDefaultsKeepTime(o) ==
  [bikeCalories |-> Num(0), calories |-> Num(0), cost |-> Num(0),
   emissions |-> Num(0), modes |-> <<>>,
   time |-> IF "time" \in DOMAIN o THEN o.time ELSE Num(0),
   timeInTransit |-> Num(0), transfers |-> Num(0), transitCost |-> Num(0),
   walkCalories |-> Num(0), bikeDistance |-> Num(0), driveDistance |-> Num(0),
   walkDistance |-> Num(0)] @@ o

\* "Defaults" and "Bike/Drive/Walk distances" (172-186)
TallyDefaults(o) ==
  [bikeCalories |-> Num(0), calories |-> Num(0), cost |-> Num(0),
   emissions |-> Num(0), modes |-> <<>>, time |-> Num(0),
   timeInTransit |-> Num(0), transfers |-> Num(0), transitCost |-> Num(0),
   walkCalories |-> Num(0), bikeDistance |-> Num(0), driveDistance |-> Num(0),
   walkDistance |-> Num(0)] @@ o

\* "Tally access" (189-196) and "Tally egress" (199-206): key names the array.
AddLegTime(o, leg) == [time |-> Add(o.time, leg.time)] @@ o

TallyLeg(h, o, key) ==
  IF NonEmpty(h, o, key)
  THEN LET leg == h[h[o[key]].elems[1]]
       IN AddLegTime(addStreetEdges(o, toLowerCase(leg.mode), leg), leg)
  ELSE o

\* One call of the o.transit.forEach callback (215-233).
TallySegment(o, segment, rates) ==
  LET trips == IF "segmentPatterns" \in DOMAIN segment
               THEN segment.segmentPatterns[1].nTrips ELSE Num(0)
      timeInTransit == Add(segment.waitStats.avg, segment.rideStats.avg)
  IN [modes |-> Append(o.modes, toLowerCase(segment.mode)),
      trips |-> IF o.trips = Infinity \/ Less(trips, o.trips) THEN trips ELSE o.trips,
      timeInTransit |-> Add(o.timeInTransit, timeInTransit),
      time |-> Add(o.time, Add(segment.walkTime, timeInTransit)),
      walkDistance |-> Add(o.walkDistance, segment.walkDistance),
      emissions |-> Add(o.emissions, rates.co2PerTransitTrip)] @@ o

RECURSIVE TallySegments(_, _, _, _)
TallySegments(h, o, elems, rates) ==
  IF elems = <<>> THEN o
  ELSE Then(TallySegment(o, h[Head(elems)], rates),
            LAMBDA o1 : TallySegments(h, o1, Tail(elems), rates))

\* o.fares.forEach (236-238)
RECURSIVE TallyFares(_, _, _)
TallyFares(h, o, elems) ==
  IF elems = <<>> THEN o
  ELSE LET f == Head(elems)
       IN TallyFares(h,
            IF f # 0 /\ "peak" \in DOMAIN h[f] /\ h[f].peak.m # 0
            THEN [transitCost |-> Add(o.transitCost, h[f].peak)] @@ o
            ELSE o,
            Tail(elems))

\* "Tally transit" (209-242)
\* if (o.fares) o.fares.forEach(...) (235-239)
TallyOptionFares(h, o) ==
  IF "fares" \in DOMAIN o /\ o.fares # 0 THEN TallyFares(h, o, h[o.fares].elems) ELSE o

\* o.cost += o.transitCost (241)
AddTransitCost(o) == [cost |-> Add(o.cost, o.transitCost)] @@ o

\* "Tally transit" (209-242)
TallyTransit(h, o, rates) ==
  IF NonEmpty(h, o, "transit")
  THEN AddTransitCost(TallyOptionFares(h,
         TallySegments(h,
           [transfers |-> Num(Len(h[o.transit].elems) - 1),
            transitCost |-> Num(0), trips |-> Infinity] @@ o,
           h[o.transit].elems, rates)))
  ELSE o

\* "Set the walking calories burned" (245-248)
TallyWalkCalories(o, rates) ==
  IF Includes(o.modes, "walk")
  THEN [walkCalories |-> caloriesBurned(WALKING_MET, rates.weight,
          Mul(Div(o.walkDistance, rates.walkSpeed), SECONDS_TO_HOURS))] @@ o
  ELSE o

\* "Set the biking calories burned" (251-254)
TallyBikeCalories(o, rates) ==
  IF Includes(o.modes, "bicycle") \/ Includes(o.modes, "bicycle_rent")
  THEN [bikeCalories |-> caloriesBurned(CYCLING_MET, rates.weight,
          Mul(Div(o.bikeDistance, rates.bikeSpeed), SECONDS_TO_HOURS))] @@ o
  ELSE o

\* Mutant: the car emissions are added to the transit emissions.
TallyCarAccumulate(o, rates) ==
  IF Includes(o.modes, "car")
  THEN LET carCost == Add(Mul(rates.mileageRate, Mul(o.driveDistance, METERS_TO_MILES)),
                          rates.carParkingCost)
       IN [carCost |-> carCost,
           cost |-> Add(o.cost, carCost),
           emissions |-> Add(o.emissions,
                             Mul(Div(o.driveDistance, rates.mpg), CO2_PER_GALLON))] @@ o
  ELSE o

\* "Set the parking costs" (257-261)
TallyCar(o, rates) ==
  IF Includes(o.modes, "car")
  THEN LET carCost == Add(Mul(rates.mileageRate, Mul(o.driveDistance, METERS_TO_MILES)),
                          rates.carParkingCost)
       IN [carCost |-> carCost,
           cost |-> Add(o.cost, carCost),
           emissions |-> Mul(Div(o.driveDistance, rates.mpg), CO2_PER_GALLON)] @@ o
  ELSE o

\* "unique modes only" (264-266)
RECURSIVE UniqueModes(_, _)
UniqueModes(modes, acc) ==
  IF modes = <<>> THEN acc
  ELSE UniqueModes(Tail(modes),
                   IF Includes(acc, Head(modes)) THEN acc ELSE Append(acc, Head(modes)))

\* tally(o): the option object as tally leaves it; rates is this.rates.
TallyUniqueModes(o) == [modes |-> UniqueModes(o.modes, <<>>)] @@ o

\* "Total calories" (269)
TallyCalories(o) == [calories |-> Add(o.bikeCalories, o.walkCalories)] @@ o

tally(h, o, rates) ==
  TallyCalories(TallyUniqueModes(
    TallyCar(
      TallyBikeCalories(
        TallyWalkCalories(
          TallyTransit(h,
            TallyLeg(h, TallyLeg(h, TallyDefaults(o), "access"), "egress"),
            rates),
          rates),
        rates),
      rates)))

(***************************************************************************)
(* score (index.js 125-161)                                                *)
(***************************************************************************)
\* One call of the o.modes.forEach callback; st is [score, totalCalories].
ScoreMode(o, mode, st, factors) ==
  CASE mode = "car" ->
         [score |-> Add(Add(st.score, applyFactor(Num(1), factors.carParking)),
                        applyFactor(o.emissions, factors.co2)),
          totalCalories |-> st.totalCalories]
    [] mode \in {"bicycle", "bicycle_rent"} ->
         [score |-> Add(st.score, applyFactor(Num(1), factors.bikeParking)),
          totalCalories |-> Add(st.totalCalories, o.bikeCalories)]
    [] mode = "walk" ->
         [score |-> st.score,
          totalCalories |-> Add(st.totalCalories, o.walkCalories)]
    [] OTHER -> st

RECURSIVE ScoreModes(_, _, _, _)
ScoreModes(o, modes, st, factors) ==
  IF modes = <<>> THEN st
  ELSE ScoreModes(o, Tail(modes), ScoreMode(o, Head(modes), st, factors), factors)

\* var score = o.time / 60 (127)
ScoreStart(o) == Div(o.time, Num(60))

\* The locals score and totalCalories when the forEach over o.modes has ended.
ScoreLoop(o, factors) ==
  ScoreModes(o, o.modes, [score |-> ScoreStart(o), totalCalories |-> Num(0)], factors)

\* score(o); factors is this.factors.
\* Mutant: the cost term is left out.
ScoreTotalsNoCost(o, st, factors) ==
  Add(Add(st.score, applyFactor(o.transfers, factors.transfer)),
      applyFactor(st.totalCalories, factors.calories))

\* The additions after the loop (151-158); st holds the locals.
ScoreTotals(o, st, factors) ==
  Add(Add(Add(st.score, applyFactor(o.transfers, factors.transfer)),
          applyFactor(o.cost, factors.cost)),
      applyFactor(st.totalCalories, factors.calories))

score(o, factors) == ScoreTotals(o, ScoreLoop(o, factors), factors)

(***************************************************************************)
(* processOption, processOptions (index.js 66-116)                         *)
(***************************************************************************)
\* processOption(o) on the object at r: the heap afterwards (o is returned).
SetScore(o, factors) == [score |-> score(o, factors)] @@ o

processOption(h, r, factors, rates) ==
  [h EXCEPT ![r] = SetScore(tally(h, h[r], rates), factors)]

\* opt[key] = [x] for the object at opt.r, x being c.r.
SetArrayOf(opt, key, c) ==
  [h |-> [Alloc(c.h, [elems |-> <<c.r>>]).h EXCEPT
            ![opt.r] = (key :> (Len(c.h) + 1)) @@ @],
   r |-> opt.r]

\* Mutant: opt[key] = [x], without clone.
SetSingleNoClone(opt, key, x) == SetArrayOf(opt, key, [h |-> opt.h, r |-> x])

\* opt.access = [clone(a)] (98, 104) and opt.egress = [clone(e)] (99)
SetSingle(opt, key, x) == SetArrayOf(opt, key, clone(opt.h, x))

\* processed.push(self.processOption(opt)) (100, 105)
PushProcessed(processed, opt, factors, rates) ==
  [h |-> processOption(opt.h, opt.r, factors, rates),
   processed |-> Append(processed, opt.r)]

\* Mutant: opt.egress is not narrowed to the alternative.
ExpandWithEgressAll(st, o, a, e, factors, rates) ==
  PushProcessed(st.processed, SetSingle(clone(st.h, o), "access", a), factors, rates)

\* The branch with an egress alternative (97-100): st is [h, processed].
ExpandWithEgress(st, o, a, e, factors, rates) ==
  PushProcessed(st.processed,
    SetSingle(SetSingle(clone(st.h, o), "access", a), "egress", e),
    factors, rates)

\* The branch without egress alternatives (103-105).
ExpandAccessOnly(st, o, a, factors, rates) ==
  PushProcessed(st.processed, SetSingle(clone(st.h, o), "access", a), factors, rates)

\* o.egress.forEach (96-101) over the elements elems
RECURSIVE ForEachEgress(_, _, _, _, _, _)
ForEachEgress(st, o, a, elems, factors, rates) ==
  IF elems = <<>> THEN st
  ELSE Then(ExpandWithEgress(st, o, a, Head(elems), factors, rates),
            LAMBDA st1 : ForEachEgress(st1, o, a, Tail(elems), factors, rates))

\* o.access.forEach (94-107) over the elements elems
RECURSIVE ForEachAccess(_, _, _, _, _)
ForEachAccess(st, o, elems, factors, rates) ==
  IF elems = <<>> THEN st
  ELSE Then(IF NonEmpty(st.h, st.h[o], "egress")
            THEN ForEachEgress(st, o, Head(elems), st.h[st.h[o].egress].elems,
                               factors, rates)
            ELSE ExpandAccessOnly(st, o, Head(elems), factors, rates),
            LAMBDA st1 : ForEachAccess(st1, o, Tail(elems), factors, rates))

\* options.forEach (92-109)
RECURSIVE ForEachOption(_, _, _, _)
ForEachOption(st, options, factors, rates) ==
  IF options = <<>> THEN st
  ELSE Then(IF "access" \in DOMAIN st.h[Head(options)] /\ st.h[Head(options)].access # 0
            THEN ForEachAccess(st, Head(options),
                               st.h[st.h[Head(options)].access].elems, factors, rates)
            ELSE st,
            LAMBDA st1 : ForEachOption(st1, Tail(options), factors, rates))

\* Mutant: b.score - a.score.
compareDescending(h, a, b) == Sub(h[b].score, h[a].score)

\* The comparison function handed to sort (111-113).
compare(h, a, b) == Sub(h[a].score, h[b].score)

\* Array.prototype.sort: insertion sort, as the engines do on short arrays.
RECURSIVE SortInsert(_, _, _)
SortInsert(h, sorted, x) ==
  IF sorted = <<>> THEN <<x>>
  ELSE LET n == Len(sorted)
       IN IF compare(h, sorted[n], x).m > 0
          THEN Append(SortInsert(h, SubSeq(sorted, 1, n - 1), x), sorted[n])
          ELSE Append(sorted, x)

RECURSIVE sort(_, _, _)
sort(h, arr, sorted) ==
  IF arr = <<>> THEN sorted
  ELSE Then(SortInsert(h, sorted, Head(arr)), LAMBDA s1 : sort(h, Tail(arr), s1))

\* processOptions(options): the heap afterwards and the array returned.
SortProcessed(st) == [h |-> st.h, processed |-> sort(st.h, st.processed, <<>>)]

processOptions(h, options, factors, rates) ==
  SortProcessed(ForEachOption([h |-> h, processed |-> <<>>], options, factors, rates))

(***************************************************************************)
(* The caller's data                                                       *)
(***************************************************************************)
WalkLeg ==
  [mode |-> "WALK", time |-> Num(360), streetEdges |-> <<[distance |-> Num(500)]>>]

CarLeg ==
  [mode |-> "CAR", time |-> Num(600),
   streetEdges |-> <<[mode |-> "WALK", distance |-> Num(100)],
                     [mode |-> "CAR", distance |-> Num(5000)]>>]

BikeLeg ==
  [mode |-> "BICYCLE", time |-> Num(480),
   streetEdges |-> <<[mode |-> "BICYCLE", distance |-> Num(2000)]>>]

RentLeg ==
  [mode |-> "BICYCLE_RENT", time |-> Num(540),
   streetEdges |-> <<[mode |-> "bicycle", distance |-> Num(1000)],
                     [mode |-> "walk", distance |-> Num(100)]>>]

\* A leg without streetEdges.
BareLeg == [mode |-> "WALK", time |-> Num(60)]

Bus ==
  [mode |-> "BUS", walkTime |-> Num(120), walkDistance |-> Num(150),
   waitStats |-> [avg |-> Num(300)], rideStats |-> [avg |-> Num(900)],
   segmentPatterns |-> <<[nTrips |-> Num(4)]>>]

\* A segment without segmentPatterns.
Subway ==
  [mode |-> "SUBWAY", walkTime |-> Num(60), walkDistance |-> Num(80),
   waitStats |-> [avg |-> Num(180)], rideStats |-> [avg |-> Num(600)]]

Fare == [peak |-> Dec(175, -2)]

\* null as an array element.
Null == [null |-> TRUE]

\* The raw options a caller may hand in, as literals.
Shapes ==
  { [access |-> <<WalkLeg, CarLeg>>],
    [access |-> <<CarLeg, BikeLeg>>, egress |-> <<RentLeg, WalkLeg>>,
     transit |-> <<Bus, Subway>>, fares |-> <<Fare, Null, EmptyObject, Fare>>],
    [access |-> <<>>, egress |-> <<WalkLeg>>, transit |-> <<Bus>>, fares |-> <<Fare>>],
    [egress |-> <<WalkLeg>>, transit |-> <<Subway>>],
    [access |-> <<RentLeg, BareLeg>>, egress |-> <<>>] }

\* Evaluation of an array literal: its elements, then the array.
RECURSIVE StoreElems(_, _, _)
StoreElems(h, vals, done) ==
  IF vals = <<>> THEN [h |-> h, r |-> done]
  ELSE IF Head(vals) = Null THEN StoreElems(h, Tail(vals), Append(done, 0))
  ELSE Then(Alloc(h, Head(vals)),
            LAMBDA a : StoreElems(a.h, Tail(vals), Append(done, a.r)))

StoreArray(h, vals) == AllocArray(StoreElems(h, vals, <<>>))

\* Evaluation of an option literal.
RECURSIVE StoreFields(_, _, _, _)
\* a is the array stored for the first of keys.
StoreNextField(a, shape, keys, obj) ==
  StoreFields(a.h, shape, Tail(keys), (Head(keys) :> a.r) @@ obj)

StoreFields(h, shape, keys, obj) ==
  IF keys = <<>> THEN [h |-> h, obj |-> obj]
  ELSE IF Head(keys) \in DOMAIN shape
  THEN Then(StoreArray(h, shape[Head(keys)]),
            LAMBDA a : StoreNextField(a, shape, keys, obj))
  ELSE StoreFields(h, shape, Tail(keys), obj)

StoreOption(h, shape) == AllocObject(StoreFields(h, shape, RefKeys, EmptyObject))

RECURSIVE StoreOptions(_, _, _)

\* o is the option stored for the first of shapes.
StoreNextOption(o, shapes, done) ==
  StoreOptions(o.h, Tail(shapes), Append(done, o.r))

StoreOptions(h, shapes, done) ==
  IF shapes = <<>> THEN [h |-> h, r |-> done]
  ELSE Then(StoreOption(h, Head(shapes)), LAMBDA o : StoreNextOption(o, shapes, done))

\* Sequences over S of length at most n.
SeqUpTo(S, n) == UNION {[1..k -> S] : k \in 0..n}

(***************************************************************************)
(* The state machine                                                       *)
(***************************************************************************)
Init ==
  /\ conf = <<TimeFactorsLiteral, RatesLiteral>>
  /\ instances = <<>>
  /\ opts = <<>>
  /\ \E shapes \in SeqUpTo(Shapes, MaxOptions) :
       \E s \in {StoreOptions(<<>>, shapes, <<>>)} : heap = s.h /\ input = s.r
  /\ result = <<>>
  /\ rec = 0
  /\ runs = 0
  /\ first = EmptyObject

Construct == \E o \in OptsChoices : ProfileScore(o)

\* The part of the heap the caller still refers to when it calls
\* processOptions again: its input (the array returned before is dropped).
Retained(h, options) ==
  LET live == UNION {Reach(h, options[i]) : i \in 1..Len(options)}
  IN SubSeq(h, 1, Cardinality(live))

\* result = instances[i].processOptions(input)
ProcessOptions(i) ==
  /\ \E p \in {processOptions(Retained(heap, input), input,
                              conf[instances[i].factors], conf[instances[i].rates])} :
       heap' = p.h /\ result' = <<[by |-> i, value |-> p.processed]>>
  /\ UNCHANGED <<conf, instances, opts, input, rec, runs, first>>

Next ==
  \/ Construct
  \/ \E i \in 1..Len(instances) : ProcessOptions(i)

Spec == Init /\ [][Next]_vars

(***************************************************************************)
(* processOption on one record, run repeatedly by one instance             *)
(***************************************************************************)
\* The street edges a leg may have.
EdgeKinds ==
  { [distance |-> Num(100)], [distance |-> Num(1000)],
    [mode |-> "BICYCLE", distance |-> Num(100)],
    [mode |-> "BICYCLE", distance |-> Num(1000)],
    [mode |-> "walk", distance |-> Num(100)],
    [mode |-> "CAR", distance |-> Num(1000)] }

\* Options with one bicycle_rent leg, as access or as egress.
RentShapes ==
  { (key :> <<[mode |-> "BICYCLE_RENT", time |-> Num(540), streetEdges |-> edges]>>) :
      key \in {"access", "egress"}, edges \in SeqUpTo(EdgeKinds, MaxEdges) }

InitOption ==
  /\ \E o \in OptsChoices :
       \E f \in {merge(<<TimeFactorsLiteral, RatesLiteral>>, DEFAULT_TIME_FACTORS,
                       OrEmpty(o, "factors"))} :
         \E r \in {merge(f.conf, DEFAULT_RATES, OrEmpty(o, "rates"))} :
           /\ conf = r.conf
           /\ instances = <<[factors |-> f.ref, rates |-> r.ref]>>
           /\ opts = <<o>>
  /\ \E shape \in Shapes \cup RentShapes :
       \E s \in {StoreOption(<<>>, shape)} : heap = s.h /\ rec = s.r
  /\ input = <<>>
  /\ result = <<>>
  /\ runs = 0
  /\ first = EmptyObject

\* instances[1].processOption(rec)
RunOption ==
  /\ runs < MaxRuns
  /\ heap' = processOption(heap, rec, conf[instances[1].factors], conf[instances[1].rates])
  /\ runs' = runs + 1
  /\ first' = IF runs = 0 THEN heap'[rec] ELSE first
  /\ UNCHANGED <<conf, instances, opts, input, result, rec>>

NextOption == RunOption

SpecOption == InitOption /\ [][NextOption]_vars

(***************************************************************************)
(* Properties                                                              *)
(***************************************************************************)
\* The array the last processOptions call returned (empty before any call).
Returned == IF result = <<>> THEN <<>> ELSE result[1].value

RefKeySet == {RefKeys[j] : j \in 1..Len(RefKeys)}

\* The value an object graph stands for: arrays as sequences, null as Null,
\* an option as its access / egress / transit / fares, leaves as they are.
RECURSIVE ValueOf(_, _)
ValueOf(h, r) ==
  IF r = 0 THEN Null
  ELSE IF "elems" \in DOMAIN h[r]
  THEN [i \in 1..Len(h[r].elems) |-> ValueOf(h, h[r].elems[i])]
  ELSE IF DOMAIN h[r] \cap RefKeySet # {}
  THEN [k \in DOMAIN h[r] \cap RefKeySet |-> ValueOf(h, h[r][k])]
  ELSE h[r]

\* Number of alternatives an option value has under key (0 when absent).
Alternatives(v, key) == IF key \in DOMAIN v THEN Len(v[key]) ELSE 0

\* C1: the array processOptions returns is ordered ascending by score.
C1_SortedByScore ==
  \A i, j \in 1..Len(Returned) :
    i < j => Leq(heap[Returned[i]].score, heap[Returned[j]].score)

\* C1 witness: a returned array of three or more results with different
\* scores, in which a result created later precedes one created earlier.
C1_Witness ==
  /\ Len(Returned) >= 3
  /\ \E i, j \in 1..Len(Returned) :
       /\ i < j
       /\ Returned[i] > Returned[j]
       /\ Less(heap[Returned[i]].score, heap[Returned[j]].score)

\* The (option, access alternative, egress alternative) combinations of the
\* input; the egress index is 0 when the option has no egress alternative.
CombinationsOf(k, v) ==
  {k} \X (1..Alternatives(v, "access"))
      \X (IF Alternatives(v, "egress") = 0 THEN {0} ELSE 1..Alternatives(v, "egress"))

Combinations ==
  UNION {CombinationsOf(k, ValueOf(heap, input[k])) : k \in 1..Len(input)}

\* The option value the combination t stands for.
CombinationValue(t) ==
  LET v == ValueOf(heap, input[t[1]])
  IN IF t[3] = 0 THEN [access |-> <<v.access[t[2]]>>] @@ v
     ELSE [access |-> <<v.access[t[2]]>>, egress |-> <<v.egress[t[3]]>>] @@ v

\* C2: processOptions returns exactly one result per (option, access
\* alternative, egress alternative) combination -- a*e results for an option
\* with e >= 1 egress alternatives, a results when egress is absent or empty,
\* none when access is absent or empty -- and each result holds exactly that
\* one access alternative and that one egress alternative.
C2_OnePerCombination ==
  result # <<>> =>
    /\ Len(Returned) = Cardinality(Combinations)
    /\ \A d \in {CombinationValue(t) : t \in Combinations}
               \cup {ValueOf(heap, Returned[n]) : n \in 1..Len(Returned)} :
         Cardinality({t \in Combinations : CombinationValue(t) = d})
           = Cardinality({n \in 1..Len(Returned) : ValueOf(heap, Returned[n]) = d})

\* C2 witness: a call on an input holding an option with 2 x 2 alternatives,
\* one with access alternatives and an empty egress array, and hence results.
C2_Witness ==
  /\ result # <<>>
  /\ Len(input) = 2
  /\ \E k \in 1..Len(input) :
       LET v == ValueOf(heap, input[k])
       IN Alternatives(v, "access") = 2 /\ Alternatives(v, "egress") = 2
  /\ \E k \in 1..Len(input) :
       LET v == ValueOf(heap, input[k])
       IN Alternatives(v, "access") = 2 /\ "egress" \in DOMAIN v
          /\ Alternatives(v, "egress") = 0
  /\ Len(Returned) = 6

\* The objects of the caller's input.
InputObjects == UNION {Reach(heap, input[k]) : k \in 1..Len(input)}

\* No returned result shares an object with the input or with another result.
NoSharing ==
  /\ \A n \in 1..Len(Returned) : Reach(heap, Returned[n]) \cap InputObjects = {}
  /\ \A n, m \in 1..Len(Returned) :
       n # m => Reach(heap, Returned[n]) \cap Reach(heap, Returned[m]) = {}

\* C3: processOptions leaves the input array and every object of every input
\* option as it was, and no returned result shares an object with the input
\* or with another returned result.
C3_InputUntouched ==
  [][ /\ input' = input
      /\ \A a \in InputObjects : heap'[a] = heap[a]
      /\ NoSharing' ]_vars

\* C3 witness: a call has returned several results of an option with transit
\* and fares (nested objects that a shallow copy would share).
C3_Witness ==
  /\ Len(Returned) >= 4
  /\ \E n \in 1..Len(Returned) :
       {"transit", "fares", "egress"} \subseteq DOMAIN heap[Returned[n]]

\* The literal defaults overlaid key by key with the overrides.
Overlay(defaults, overrides) ==
  [k \in DOMAIN defaults \cup DOMAIN overrides |->
     IF k \in DOMAIN overrides THEN overrides[k] ELSE defaults[k]]

\* C4: every instance's factors and rates are the hard-coded defaults
\* overlaid with that instance's own overrides only.
C4_OwnConfiguration ==
  \A i \in 1..Len(instances) :
    /\ conf[instances[i].factors] = Overlay(TimeFactorsLiteral, OrEmpty(opts[i], "factors"))
    /\ conf[instances[i].rates] = Overlay(RatesLiteral, OrEmpty(opts[i], "rates"))

\* The factors and the rates of the instance that made the last call.
CallerFactors == conf[instances[result[1].by].factors]

CallerRates == conf[instances[result[1].by].rates]

\* The score as the claim composes it: from start, per distinct mode (in the
\* order of o.modes) the car parking and CO2 terms or the bike parking term,
\* then the transfer, cost and calorie terms; the calorie total takes
\* bikeCalories per bicycle / bicycle_rent mode and walkCalories for walk.
RECURSIVE ClaimedModeTerms(_, _, _, _)
ClaimedModeTerms(o, f, start, n) ==
  IF n = 0 THEN [score |-> start, calories |-> Num(0)]
  ELSE LET p == ClaimedModeTerms(o, f, start, n - 1)
           m == o.modes[n]
       IN IF m = "car"
          THEN [score |-> Add(Add(p.score, applyFactor(Num(1), f.carParking)),
                              applyFactor(o.emissions, f.co2)),
                calories |-> p.calories]
          ELSE IF m = "bicycle" \/ m = "bicycle_rent"
          THEN [score |-> Add(p.score, applyFactor(Num(1), f.bikeParking)),
                calories |-> Add(p.calories, o.bikeCalories)]
          ELSE IF m = "walk"
          THEN [score |-> p.score, calories |-> Add(p.calories, o.walkCalories)]
          ELSE p

ClaimedScore(o, f, start) ==
  LET p == ClaimedModeTerms(o, f, start, Len(o.modes))
  IN Add(Add(Add(p.score, applyFactor(o.transfers, f.transfer)),
             applyFactor(o.cost, f.cost)),
         applyFactor(p.calories, f.calories))

\* C5 as stated: the score starts from the tallied time taken as is.
C5_ScoreFromTimeAsIs ==
  [][ result' # result =>
        \A n \in 1..Len(Returned') :
          LET o == heap'[Returned'[n]]
          IN o.score = ClaimedScore(o, CallerFactors', o.time) ]_vars

\* C5 amended: the score starts from the tallied time divided by 60 (the
\* score stage converts seconds to minutes); the other terms are as stated.
C5_ScoreFromTimeOver60 ==
  [][ result' # result =>
        \A n \in 1..Len(Returned') :
          LET o == heap'[Returned'[n]]
          IN o.score = ClaimedScore(o, CallerFactors', Div(o.time, Num(60))) ]_vars

\* C5 witness: a call has scored a walk-only option without transit and an
\* option with car, bicycle_rent and transit, both with a non-zero time.
C5_Witness ==
  /\ \E n \in 1..Len(Returned) :
       LET o == heap[Returned[n]]
       IN o.modes = <<"walk">> /\ "transit" \notin DOMAIN o /\ o.time.m > 0
  /\ \E n \in 1..Len(Returned) :
       LET o == heap[Returned[n]]
       IN /\ Includes(o.modes, "car") /\ Includes(o.modes, "bicycle_rent")
          /\ o.transfers.m > 0 /\ o.cost.m > 0 /\ o.time.m > 0

\* C6: for a tallied option whose modes contain car, emissions is
\* (driveDistance / rates.mpg) * CO2_PER_GALLON whatever its transit legs.
C6_CarEmissions ==
  [][ result' # result =>
        \A n \in 1..Len(Returned') :
          LET o == heap'[Returned'[n]]
          IN Includes(o.modes, "car") =>
               o.emissions = Mul(Div(o.driveDistance, CallerRates'.mpg), CO2_PER_GALLON) ]_vars

\* C6 witness: a tallied car option with two transit legs and one without any.
C6_Witness ==
  /\ \E n \in 1..Len(Returned) :
       LET o == heap[Returned[n]]
       IN /\ Includes(o.modes, "car") /\ o.driveDistance.m > 0
          /\ NonEmpty(heap, o, "transit") /\ Len(heap[o.transit].elems) = 2
  /\ \E n \in 1..Len(Returned) :
       LET o == heap[Returned[n]]
       IN Includes(o.modes, "car") /\ "transit" \notin DOMAIN o

\* C7: in score, bikeCalories enters the running calorie total at most once,
\* so the total is at most bikeCalories + walkCalories.
C7_BikeCaloriesOnce ==
  \A n \in 1..Len(Returned) :
    LET o == heap[Returned[n]]
    IN Leq(ScoreLoop(o, CallerFactors).totalCalories,
           Add(o.bikeCalories, o.walkCalories))

\* The calorie and cost fields of a scored option.
CalorieCostFields ==
  {"calories", "bikeCalories", "walkCalories", "cost", "transitCost", "carCost"}

\* C8: after tally every calorie and cost field is a defined number.
C8_FieldsDefined ==
  \A n \in 1..Len(Returned) :
    \A k \in CalorieCostFields :
      k \in DOMAIN heap[Returned[n]] /\ IsNumber(heap[Returned[n]][k])

\* C9: re-running processOption on the same record does not accumulate:
\* after every run the record (every tallied field and the score) is what it
\* was after the first run.
C9_RerunSameAsFirst == runs >= 1 => heap[rec] = first

\* C9 witness: the last of several runs on a record with a car leg, transit
\* legs and fares (time, cost, emissions, carCost and trips all set).
C9_Witness ==
  /\ runs = MaxRuns
  /\ runs >= 2
  /\ {"carCost", "trips"} \subseteq DOMAIN heap[rec]
  /\ heap[rec].time.m > 0 /\ heap[rec].transitCost.m > 0
  /\ heap[rec].walkDistance.m > 0 /\ heap[rec].emissions.m > 0

\* The current sub-mode of edge i: the most recent mode declared at or
\* before it, walk until one is declared.
SubMode(edges, i) ==
  LET declared == {j \in 1..i : "mode" \in DOMAIN edges[j]}
  IN IF declared = {} THEN "walk"
     ELSE toLowerCase(edges[CHOOSE j \in declared : \A k \in declared : k <= j].mode)

\* The sum of the distances of the first n edges whose sub-mode is target.
RECURSIVE SubModeDistance(_, _, _)
SubModeDistance(edges, target, n) ==
  IF n = 0 THEN Num(0)
  ELSE IF SubMode(edges, n) = target
  THEN Add(SubModeDistance(edges, target, n - 1), edges[n].distance)
  ELSE SubModeDistance(edges, target, n - 1)

RECURSIVE TotalDistance(_, _)
TotalDistance(edges, n) ==
  IF n = 0 THEN Num(0) ELSE Add(TotalDistance(edges, n - 1), edges[n].distance)

\* The leg tally reads under key: the first alternative, if any.
FirstLeg(h, o, key) == h[h[o[key]].elems[1]]

IsRentLeg(h, o, key) ==
  /\ NonEmpty(h, o, key)
  /\ toLowerCase(FirstLeg(h, o, key).mode) = "bicycle_rent"
  /\ "streetEdges" \in DOMAIN FirstLeg(h, o, key)

\* What the leg under key adds to the distance of target ("bicycle" or
\* "walk"): for a bicycle_rent leg both sub-mode sums, for a bicycle leg the
\* bicycle sum, for a walk leg the walk sum.
LegDistance(h, o, key, target) ==
  IF ~NonEmpty(h, o, key) \/ "streetEdges" \notin DOMAIN FirstLeg(h, o, key)
  THEN Num(0)
  ELSE LET leg == FirstLeg(h, o, key)
           mode == toLowerCase(leg.mode)
       IN IF mode = "bicycle_rent" \/ mode = target
          THEN SubModeDistance(leg.streetEdges, target, Len(leg.streetEdges))
          ELSE Num(0)

\* The walkDistance of the first n transit segments.
RECURSIVE TransitWalk(_, _, _)
TransitWalk(h, o, n) ==
  IF n = 0 THEN Num(0)
  ELSE Add(TransitWalk(h, o, n - 1), h[h[o.transit].elems[n]].walkDistance)

\* C10: for a bicycle_rent access or egress leg, tally adds to bikeDistance
\* the distances of the edges whose current sub-mode is bicycle and to
\* walkDistance those whose current sub-mode is walk; modes contain
\* bicycle_rent and walk; no edge distance goes to both totals.
C10_RentLegDistances ==
  (runs >= 1 /\ (IsRentLeg(heap, heap[rec], "access") \/ IsRentLeg(heap, heap[rec], "egress"))) =>
    LET o == heap[rec]
    IN /\ Includes(o.modes, "bicycle_rent") /\ Includes(o.modes, "walk")
       /\ o.bikeDistance = Add(LegDistance(heap, o, "access", "bicycle"),
                               LegDistance(heap, o, "egress", "bicycle"))
       /\ o.walkDistance =
            Add(Add(LegDistance(heap, o, "access", "walk"),
                    LegDistance(heap, o, "egress", "walk")),
                IF NonEmpty(heap, o, "transit")
                THEN TransitWalk(heap, o, Len(heap[o.transit].elems)) ELSE Num(0))
       /\ \A key \in {"access", "egress"} :
            (DOMAIN o \cap RefKeySet = {key}) =>
              Leq(Add(o.bikeDistance, o.walkDistance),
                  TotalDistance(FirstLeg(heap, o, key).streetEdges,
                                Len(FirstLeg(heap, o, key).streetEdges)))

\* C10 witness: a tallied bicycle_rent leg whose first edge declares no mode
\* (walk by default), whose second declares bicycle and whose third inherits
\* it; and one with a car edge, which goes to neither total.
C10_Witness ==
  /\ runs >= 1
  /\ \E key \in {"access", "egress"} :
       /\ IsRentLeg(heap, heap[rec], key)
       /\ LET edges == FirstLeg(heap, heap[rec], key).streetEdges
          IN /\ Len(edges) = 3
             /\ "mode" \notin DOMAIN edges[1]
             /\ "mode" \in DOMAIN edges[2] /\ edges[2].mode = "BICYCLE"
             /\ "mode" \notin DOMAIN edges[3]
  /\ heap[rec].bikeDistance.m > 0 /\ heap[rec].walkDistance.m > 0

====
